---- MODULE Spec2Model ----
(***************************************************************************)
(* Model of the automated data pipeline of src/pipeline/data_pipeline.py   *)
(* (class AutomatedDataPipeline) together with the table declarations of   *)
(* src/models.py that its store calls write to.                            *)
(*                                                                         *)
(* Time is counted in hours (the unit of the configured intervals).  The   *)
(* scheduler thread polls every 60 seconds, i.e. many times per hour, so   *)
(* a poll is an action of its own and the clock advances independently.    *)
(***************************************************************************)
EXTENDS Integers, Sequences, FiniteSets, TLC

VARIABLES
    now,             \* datetime.now(), in hours
    is_running,      \* self.is_running
    jobs,            \* schedule.jobs of the process-wide default scheduler
    threads,         \* the scheduler threads created by start_pipeline
    ctl,             \* position of the control thread inside stop_pipeline
    shutdown,        \* self.executor._shutdown
    pool,            \* work items of self.executor (queued or running)
    last_run_times,  \* self.last_run_times
    data_cache,      \* self.data_cache
    db,              \* the tables apps, steam_games, events
    log,             \* messages passed to logger.error
    feed,            \* what the source producers currently return
    hist,            \* history of dispatches (observation only)
    call,            \* the most recent store call or job (observation only)
    san,             \* input and output of the sanitizer under test
    frames,          \* the job invocations in progress, one per thread
    req              \* the make_request call under test

vars == <<now, is_running, jobs, threads, ctl, shutdown, pool, last_run_times,
          data_cache, db, log, feed, hist, call, san, frames, req>>

schedVars == <<is_running, jobs, threads, ctl, shutdown, pool, hist>>
dataVars == <<data_cache, db, log, last_run_times, call>>

(***************************************************************************)
(* Bounds of the model.                                                    *)
(***************************************************************************)
MaxTime == 2      \* the clock runs from 0 to MaxTime hours
MaxPool == 2      \* most work items held by the executor at once
MaxStarts == 2    \* most scheduler threads ever created
MaxBatch == 2     \* most records in one batch handed to a store call
MaxWall == 1      \* wall-clock values carried by timestamps: 0..MaxWall
MaxCalls == 2     \* most store calls / jobs in one run of the data model
MaxList == 2      \* most records in the apps cache list before a cleanup
MaxRetries == 3   \* make_request is called with retries in 0..MaxRetries
MaxFrames == 2    \* most job invocations that overlap in the step-wise model

(***************************************************************************)
(* Values held under the keys of a record.  Every value is a triple        *)
(*   t  the Python type: "none", "text" (a str that is not ISO-8601),      *)
(*      "iso" (a str in ISO-8601 form), "dt" (a datetime), "num"           *)
(*   w  the wall-clock reading (iso, dt) or the number (num)               *)
(*   z  the text (text), the UTC-offset suffix (iso) or the tzinfo (dt);   *)
(*      "" is no suffix / tzinfo None.                                     *)
(***************************************************************************)
None == [t |-> "none", w |-> 0, z |-> ""]
Text(s) == [t |-> "text", w |-> 0, z |-> s]
Iso(w, sfx) == [t |-> "iso", w |-> w, z |-> sfx]
Dt(w, tz) == [t |-> "dt", w |-> w, z |-> tz]
Num(n) == [t |-> "num", w |-> n, z |-> ""]

\* bool(value)
Truthy(v) ==
    CASE v.t = "none" -> FALSE
      [] v.t = "text" -> v.z # ""
      [] v.t = "num" -> v.w # 0
      [] OTHER -> TRUE

IsStr(v) == v.t \in {"text", "iso"}
IsDatetime(v) == v.t = "dt"
IsAware(v) == v.t = "dt" /\ v.z # ""

\* value.replace('Z', '+00:00')
ReplaceZ(v) == IF v.t = "iso" /\ v.z = "Z" THEN Iso(v.w, "+00:00") ELSE v

\* datetime.fromisoformat(s) succeeds
IsoParses(v) == v.t = "iso" /\ v.z \in {"", "+00:00", "+01:00"}

\* datetime.fromisoformat(s): the wall clock and the offset that are written
FromIso(v) == Dt(v.w, v.z)

\* dt.replace(tzinfo=None): the wall clock is kept, the offset dropped
StripTz(v) == Dt(v.w, "")

\* datetime.now()
NowDt(t) == Dt(t, "")

datetime_fields ==
    {"last_updated", "scraped_at", "release_date", "current_version_release_date",
     "start_date", "end_date", "timestamp", "created_at", "updated_at"}

\* _sanitize_datetime_fields on one value of a datetime field
SanitizeValueKeepTz(v, t) ==
    IF ~Truthy(v) THEN v
    ELSE IF IsStr(v)
         THEN (IF IsoParses(ReplaceZ(v)) THEN StripTz(FromIso(ReplaceZ(v)))
               ELSE NowDt(t))
         ELSE v
SanitizeValue(v, t) ==
    IF ~Truthy(v) THEN v
    ELSE IF IsStr(v)
         THEN (IF IsoParses(ReplaceZ(v)) THEN StripTz(FromIso(ReplaceZ(v)))
               ELSE NowDt(t))
         ELSE IF IsDatetime(v) THEN StripTz(v)
         ELSE v

\* _sanitize_datetime_fields(data) at time t; data is a mapping
\* (a function from the keys present to their values)
Sanitize(data, t) ==
    [f \in DOMAIN data |->
        IF f \in datetime_fields THEN SanitizeValue(data[f], t) ELSE data[f]]

(***************************************************************************)
(* The tables of src/models.py.  A table is the sequence of its rows in    *)
(* rowid order; a row maps every modelled column to a value (None is SQL   *)
(* NULL).  The columns modelled are the natural key, the NOT NULL columns  *)
(* and one mutable column per table.                                       *)
(***************************************************************************)
Kinds == {"apps", "steam_games", "events"}

Columns(k) ==
    CASE k = "apps" -> {"app_store_id", "title", "rating"}
      [] k = "steam_games" -> {"steam_id", "title", "price"}
      [] k = "events" -> {"name", "start_date", "description"}

\* the column the store call looks an existing row up by (filter_by)
KeyCol(k) ==
    CASE k = "apps" -> "app_store_id"
      [] k = "steam_games" -> "steam_id"
      [] k = "events" -> "name"

\* Column(..., nullable=False)
NotNullCols(k) ==
    CASE k = "apps" -> {"title"}
      [] k = "steam_games" -> {"title"}
      [] k = "events" -> {"name", "start_date"}

\* Column(..., unique=True)
UniqueCols(k) ==
    CASE k = "apps" -> {"app_store_id"}
      [] k = "steam_games" -> {"steam_id"}
      [] k = "events" -> {}

\* data.get(key): None when the key is absent
Get(data, key) == IF key \in DOMAIN data THEN data[key] ELSE None

\* session.query(Model).filter_by(key=v).first(): the first committed row
\* whose key column equals v (IS NULL when v is None), 0 when there is none.
\* The session is created with autoflush=False, so rows added to the session
\* and not yet committed are not seen.
FirstRow(k, table, v) ==
    LET hits == {i \in 1..Len(table) : table[i][KeyCol(k)] = v}
    IN IF hits = {} THEN 0 ELSE CHOOSE i \in hits : \A j \in hits : i <= j

\* for key, value in sanitized_data.items():
\*     if hasattr(existing, key): setattr(existing, key, value)
UpdateRowWholesale(k, row, data) == [c \in Columns(k) |-> Get(data, c)]
UpdateRow(k, row, data) ==
    [c \in Columns(k) |-> IF c \in DOMAIN data THEN data[c] ELSE row[c]]

\* Model(**{k: v for k, v in sanitized_data.items() if hasattr(Model, k)})
NewRow(k, data) == [c \in Columns(k) |-> Get(data, c)]

\* The loop of a store call over records i..Len(batch): work is the table
\* with the session's pending updates applied, pending the rows added with
\* session.add, in order.
RECURSIVE StoreLoop(_, _, _, _, _, _, _)
StoreLoop(k, table, work, pending, batch, i, t) ==
    IF i > Len(batch) THEN [work |-> work, pending |-> pending]
    ELSE LET sanitized == Sanitize(batch[i], t)
             ex == FirstRow(k, table, Get(sanitized, KeyCol(k)))
         IN IF ex # 0
            THEN StoreLoop(k, table,
                           [work EXCEPT ![ex] = UpdateRow(k, work[ex], sanitized)],
                           pending, batch, i + 1, t)
            ELSE StoreLoop(k, table, work,
                           Append(pending, NewRow(k, sanitized)), batch, i + 1, t)

\* session.commit() raises IntegrityError: a NOT NULL column is NULL, or a
\* unique column holds the same non-NULL value in two rows
ViolatesConstraints(k, table) ==
    \/ \E i \in 1..Len(table) : \E c \in NotNullCols(k) : table[i][c] = None
    \/ \E i, j \in 1..Len(table) : \E c \in UniqueCols(k) :
           i < j /\ table[i][c] # None /\ table[i][c] = table[j][c]

\* store_apps_data / store_steam_data / store_events_data on table k:
\* the table after the call and whether the commit went through.  When it
\* does not, the transaction is rolled back and the except clause logs.
StoreNotAtomic(k, table, batch, t) ==
    LET s == StoreLoop(k, table, table, <<>>, batch, 1, t)
        full == s.work \o s.pending
    IN IF ViolatesConstraints(k, full)
       THEN [table |-> s.work, ok |-> FALSE]
       ELSE [table |-> full, ok |-> TRUE]
Store(k, table, batch, t) ==
    LET s == StoreLoop(k, table, table, <<>>, batch, 1, t)
        full == s.work \o s.pending
    IN IF ViolatesConstraints(k, full)
       THEN [table |-> table, ok |-> FALSE]
       ELSE [table |-> full, ok |-> TRUE]

StoreErrorMsg(k) ==
    CASE k = "apps" -> "Error storing apps data"
      [] k = "steam_games" -> "Error storing Steam data"
      [] k = "events" -> "Error storing events data"

(***************************************************************************)
(* The state after AutomatedDataPipeline.__init__ and the import of        *)
(* models.py (empty tables).  Never stands for a timestamp that is None.   *)
(***************************************************************************)
Never == 0 - 1

\* the job names that execute_job knows
JobNames ==
    {"app_store_full_scrape", "app_store_quick_scrape",
     "steam_comprehensive_scrape", "steam_quick_scrape",
     "events_comprehensive_scrape", "events_daily_scrape",
     "comprehensive_analysis", "data_cleanup", "health_check"}

\* logger.error(msg): the log keeps its last MaxCalls messages
LogError(l, msg) ==
    IF Len(l) < MaxCalls THEN Append(l, msg) ELSE Append(Tail(l), msg)

NoCall ==
    [op |-> "none", kind |-> "none", in |-> <<>>, batch |-> <<>>, prev |-> <<>>,
     before |-> <<>>, logBefore |-> <<>>, cacheBefore |-> <<>>,
     ok |-> TRUE, raised |-> FALSE, n |-> 0,
     last |-> [k \in Kinds |-> <<>>]]

\* what has been dispatched so far: per job name the number of submissions to
\* the worker pool and the times of the first and the latest one; started is
\* the time of the first start_pipeline
NoHist ==
    [count |-> [j \in JobNames |-> 0], first |-> [j \in JobNames |-> Never],
     last |-> [j \in JobNames |-> Never], started |-> Never]

NoSan == [in |-> <<>>, out |-> <<>>, at |-> 0, done |-> FALSE]

NoReq == [pc |-> "none"]

InitPipeline ==
    /\ is_running = FALSE
    /\ last_run_times =
           [j \in {"app_store_full", "app_store_quick", "steam_comprehensive",
                   "steam_quick", "events_comprehensive", "events_daily",
                   "analysis"} |-> Never]
    /\ data_cache = [apps |-> <<>>, steam_games |-> <<>>, events |-> <<>>,
                     analysis |-> FALSE, last_updated |-> Never]
    /\ shutdown = FALSE
    /\ pool = <<>>
    /\ threads = <<>>
    /\ jobs = <<>>
    /\ ctl = "idle"
    /\ db = [k \in Kinds |-> <<>>]
    /\ log = <<>>
    /\ hist = NoHist
    /\ call = NoCall
    /\ frames = <<>>

(***************************************************************************)
(* Records handed to the store calls.  Absent marks a key that the record  *)
(* does not have.                                                          *)
(***************************************************************************)
Absent == [t |-> "absent", w |-> 0, z |-> ""]

MkRecord(f) == [x \in {y \in DOMAIN f : f[y] # Absent} |-> f[x]]

KeyValues(k) ==
    CASE k = "apps" -> {Text("a1"), Text("a2")}
      [] k = "steam_games" -> {Text("s1"), Text("s2")}
      [] k = "events" -> {Text("e1"), Text("e2")}

AppRecords ==
    {MkRecord([app_store_id |-> Text("a1"), title |-> Text("T"), rating |-> Num(1)]),
     MkRecord([app_store_id |-> Text("a1"), title |-> Text("T"), rating |-> Num(2)]),
     MkRecord([app_store_id |-> Text("a2"), title |-> Text("T"), rating |-> Absent]),
     MkRecord([app_store_id |-> Text("a2"), title |-> Absent, rating |-> Num(1)]),
     MkRecord([app_store_id |-> Absent, title |-> Text("T"), rating |-> Num(1)])}

SteamRecords ==
    {MkRecord([steam_id |-> Text("s1"), title |-> Text("T"), price |-> Num(1)]),
     MkRecord([steam_id |-> Text("s1"), title |-> Text("T"), price |-> Num(2)]),
     MkRecord([steam_id |-> Text("s2"), title |-> Absent, price |-> Num(1)])}

EventRecords ==
    {MkRecord([name |-> Text("e1"), start_date |-> Iso(0, "Z"),
               description |-> Text("d1")]),
     MkRecord([name |-> Text("e1"), start_date |-> Iso(0, "Z"),
               description |-> Text("d2")]),
     MkRecord([name |-> Text("e1"), start_date |-> Dt(MaxWall, "+01:00"),
               description |-> Text("d1")]),
     MkRecord([name |-> Text("e2"), start_date |-> Absent,
               description |-> Text("d1")]),
     MkRecord([name |-> Absent, start_date |-> Iso(0, "Z"),
               description |-> Absent])}

StoreRecords(k) ==
    CASE k = "apps" -> AppRecords
      [] k = "steam_games" -> SteamRecords
      [] k = "events" -> EventRecords

Batches(S) == UNION {[1..n -> S] : n \in 0..MaxBatch}

(***************************************************************************)
(* A store call made on its own (as src/fix_database_issue.py does).  The  *)
(* except clause of the store call logs and returns: nothing is raised and *)
(* the call returns None whether or not the commit went through.           *)
(***************************************************************************)
StoreCall(k, batch) ==
    /\ call.n < MaxCalls
    /\ LET r == Store(k, db[k], batch, now)
       IN /\ db' = [db EXCEPT ![k] = r.table]
          /\ log' = IF r.ok THEN log ELSE LogError(log, StoreErrorMsg(k))
          /\ call' = [op |-> "store", kind |-> k, in |-> <<>>, batch |-> batch,
                      prev |-> call.last[k], before |-> db[k],
                      logBefore |-> log, cacheBefore |-> <<>>,
                      ok |-> r.ok, raised |-> FALSE, n |-> call.n + 1,
                      last |-> [call.last EXCEPT ![k] = <<batch>>]]
    /\ UNCHANGED <<now, schedVars, last_run_times, data_cache, feed, san, frames, req>>

store_apps_data == \E b \in Batches(AppRecords) : StoreCall("apps", b)
store_steam_data == \E b \in Batches(SteamRecords) : StoreCall("steam_games", b)
store_events_data == \E b \in Batches(EventRecords) : StoreCall("events", b)

InitStore == InitPipeline /\ now = 0 /\ feed = "none" /\ san = NoSan /\ req = NoReq

NextStore == store_apps_data \/ store_steam_data \/ store_events_data

SpecStore == InitStore /\ [][NextStore]_vars

(***************************************************************************)
(* Claims about the store calls (SpecStore).                               *)
(***************************************************************************)
\* the column that a re-scrape refreshes
MutableCol(k) ==
    CASE k = "apps" -> "rating"
      [] k = "steam_games" -> "price"
      [] k = "events" -> "description"

\* the natural key of a row or of a sanitized record: the store id, or the
\* composite of name and date for events
NaturalKey(k, r) ==
    IF k = "events" THEN <<Get(r, "name"), Get(r, "start_date")>>
    ELSE <<Get(r, KeyCol(k))>>

HasKey(k, r) == Truthy(Get(r, KeyCol(k)))

DuplicateRows(k, table) ==
    {p \in (1..Len(table)) \X (1..Len(table)) :
        /\ p[1] < p[2]
        /\ HasKey(k, table[p[1]]) /\ HasKey(k, table[p[2]])
        /\ NaturalKey(k, table[p[1]]) = NaturalKey(k, table[p[2]])}

\* C3: after any sequence of store calls with any batches, every table
\* holds at most one row per natural key.
C3_OneRowPerNaturalKey == \A k \in Kinds : DuplicateRows(k, db[k]) = {}

\* two batches that differ at most in the mutable column
SameButMutable(k, b1, b2) ==
    /\ Len(b1) = Len(b2)
    /\ \A i \in 1..Len(b1) :
          /\ DOMAIN b1[i] = DOMAIN b2[i]
          /\ \A f \in DOMAIN b1[i] \ {MutableCol(k)} : b1[i][f] = b2[i][f]

\* every row whose natural key is in the batch holds, in the mutable
\* column, a value that the batch gives for that key
RowsHoldBatch(k, table, batch, t) ==
    \A x \in 1..Len(table) : \A i \in 1..Len(batch) :
        ( /\ HasKey(k, table[x])
          /\ NaturalKey(k, Sanitize(batch[i], t)) = NaturalKey(k, table[x])
          /\ MutableCol(k) \in DOMAIN batch[i] )
        => \E j \in 1..Len(batch) :
              /\ NaturalKey(k, Sanitize(batch[j], t)) = NaturalKey(k, table[x])
              /\ MutableCol(k) \in DOMAIN batch[j]
              /\ table[x][MutableCol(k)] = batch[j][MutableCol(k)]

\* C4: a store call repeated with the identical batch leaves the number of
\* rows unchanged, and a second batch that differs only in mutable fields
\* leaves its values in the rows.
C4_IdempotentUpsert ==
    (call.op = "store" /\ call.prev # <<>>
        /\ SameButMutable(call.kind, call.prev[1], call.batch))
    => /\ (call.prev[1] = call.batch => Len(db[call.kind]) = Len(call.before))
       /\ RowsHoldBatch(call.kind, db[call.kind], call.batch, now)

\* record i of the batch is in the table: a row with its key holds every
\* column the record names, unless a later record with that key set it
Persisted(k, table, batch, i, t) ==
    LET rec == Sanitize(batch[i], t)
    IN \E x \in 1..Len(table) :
          /\ table[x][KeyCol(k)] = Get(rec, KeyCol(k))
          /\ \A c \in Columns(k) \cap DOMAIN rec :
                \/ table[x][c] = rec[c]
                \/ \E j \in (i + 1)..Len(batch) :
                      /\ Get(Sanitize(batch[j], t), KeyCol(k)) = Get(rec, KeyCol(k))
                      /\ c \in DOMAIN batch[j]

AllPersisted ==
    \A i \in 1..Len(call.batch) :
        Persisted(call.kind, db[call.kind], call.batch, i, now)

\* C5 as stated: the batch is committed as a whole or, when a record causes
\* an exception, nothing is persisted and the error reaches the caller.
C5_AtomicAndReported ==
    call.op = "store" =>
        \/ AllPersisted /\ log = call.logBefore
        \/ /\ db[call.kind] = call.before
           /\ call.raised

\* C5 (amended): the batch is committed as a whole or, when a record causes
\* an exception, nothing is persisted, the table is as before the call, the
\* error is logged and the call returns normally to its caller.
C5_AtomicAndLogged ==
    call.op = "store" =>
        \/ AllPersisted /\ log = call.logBefore /\ ~call.raised
        \/ /\ db[call.kind] = call.before
           /\ log = LogError(call.logBefore, StoreErrorMsg(call.kind))
           /\ ~call.raised

\* a failed call whose batch also updated a row that was already there
C5_Witness ==
    /\ call.op = "store" /\ ~call.ok /\ Len(call.batch) >= 2
    /\ \E i \in 1..Len(call.batch) :
          LET x == FirstRow(call.kind, call.before,
                            Get(Sanitize(call.batch[i], now), KeyCol(call.kind)))
          IN /\ x # 0
             /\ MutableCol(call.kind) \in DOMAIN call.batch[i]
             /\ call.before[x][MutableCol(call.kind)]
                   # call.batch[i][MutableCol(call.kind)]

(***************************************************************************)
(* The sanitizer on its own (SpecSanitize): a record is drawn, then        *)
(* _sanitize_datetime_fields is applied to it.  The function works on a    *)
(* copy (data.copy()), so the input mapping stays as it is.                *)
(***************************************************************************)
SanValues ==
    {None, Text(""), Text("garbage"), Num(5)}
    \cup {Iso(w, sfx) : w \in 0..MaxWall, sfx \in {"", "Z", "+01:00"}}
    \cup {Dt(w, tz) : w \in 0..MaxWall, tz \in {"", "+00:00", "+01:00"}}

SanInputs ==
    {MkRecord([scraped_at |-> a, release_date |-> b, title |-> c,
               current_version_release_date |-> e]) :
        a \in SanValues \cup {Absent},
        b \in {Absent, Iso(0, "Z"), Dt(MaxWall, "+01:00")},
        c \in {Absent, Text("T"), Dt(0, "+00:00")},
        e \in {Absent, Iso(0, "Z")}}

InitSanitize ==
    /\ InitPipeline
    /\ now \in 0..MaxTime
    /\ feed = "none"
    /\ req = NoReq
    /\ san \in {[in |-> r, out |-> <<>>, at |-> 0, done |-> FALSE] : r \in SanInputs}

sanitize_datetime_fields ==
    /\ ~san.done
    /\ san' = [in |-> san.in, out |-> Sanitize(san.in, now), at |-> now,
               done |-> TRUE]
    /\ UNCHANGED <<now, schedVars, dataVars, feed, frames, req>>

NextSanitize == sanitize_datetime_fields

SpecSanitize == InitSanitize /\ [][NextSanitize]_vars

\* C6: whatever the input record, the output of the sanitizer holds no
\* timezone-aware timestamp under a timestamp field: the field is a
\* timezone-naive time, or unchanged, or absent.
C6_NoAwareTimestamp ==
    san.done =>
        \A f \in datetime_fields :
            \/ f \notin DOMAIN san.out
            \/ IsDatetime(san.out[f]) /\ ~IsAware(san.out[f])
            \/ san.out[f] = san.in[f] /\ ~IsAware(san.out[f])

\* the sanitizer has run on a record with a timezone-aware datetime and on
\* an ISO string with an offset
C6_Witness ==
    /\ san.done
    /\ "scraped_at" \in DOMAIN san.in /\ IsAware(san.in["scraped_at"])
    /\ "release_date" \in DOMAIN san.in /\ san.in["release_date"] = Iso(0, "Z")
    /\ san.out["release_date"] = Dt(0, "")

(***************************************************************************)
(* The job bodies.  A data state d is [cache, db, log]; a producer outcome *)
(* is [raise, recs]: the producer raised, or returned the list recs.       *)
(***************************************************************************)
data_retention_days == 30
HoursPerDay == 24

Raise == [raise |-> TRUE, recs |-> <<>>]
Return(recs) == [raise |-> FALSE, recs |-> recs]

\* self.store_<kind>_data(batch) inside a job
StoreIn(d, k, batch, t) ==
    LET r == Store(k, d.db[k], batch, t)
    IN [d EXCEPT !.db[k] = r.table,
                 !.log = IF r.ok THEN @ ELSE LogError(@, StoreErrorMsg(k))]

\* deduplicate_apps_cache: keep the first record of every truthy id
RECURSIVE DedupLoop(_, _, _, _)
DedupLoop(apps, i, seen_ids, unique_apps) ==
    IF i > Len(apps) THEN unique_apps
    ELSE LET app_id == Get(apps[i], "app_store_id")
         IN IF Truthy(app_id) /\ app_id \notin seen_ids
            THEN DedupLoop(apps, i + 1, seen_ids \cup {app_id},
                           Append(unique_apps, apps[i]))
            ELSE DedupLoop(apps, i + 1, seen_ids, unique_apps)

deduplicate_apps_cache(apps) == DedupLoop(apps, 1, {}, <<>>)

chart_types == <<"top-free", "top-paid", "top-grossing", "new-apps">>

\* the loop of app_store_full_scrape over the chart types i..4
RECURSIVE ChartLoop(_, _, _, _)
ChartLoop(d, charts, i, t) ==
    IF i > Len(chart_types) THEN d
    ELSE IF charts[i].raise
         THEN ChartLoop([d EXCEPT !.log = LogError(@, "Error scraping chart")],
                        charts, i + 1, t)
         ELSE LET stored == StoreIn(d, "apps", charts[i].recs, t)
              IN ChartLoop([stored EXCEPT !.cache.apps = @ \o charts[i].recs],
                           charts, i + 1, t)

app_store_full_scrape(d, charts, t) ==
    LET looped == ChartLoop(d, charts, 1, t)
    IN [looped EXCEPT !.cache.apps = deduplicate_apps_cache(@)]

\* app_store_quick_scrape: one store call per trending app
RECURSIVE QuickLoop(_, _, _, _)
QuickLoop(d, trending_apps, i, t) ==
    IF i > Len(trending_apps) THEN d
    ELSE QuickLoop(StoreIn(d, "apps", <<trending_apps[i]>>, t),
                   trending_apps, i + 1, t)

app_store_quick_scrape(d, out, t) ==
    IF out.raise THEN [d EXCEPT !.log = LogError(@, "Quick App Store scrape failed")]
    ELSE QuickLoop(d, out.recs, 1, t)

steam_comprehensive_scrape(d, out, t) ==
    IF out.raise
    THEN [d EXCEPT !.log = LogError(@, "Comprehensive Steam scrape failed")]
    ELSE [StoreIn(d, "steam_games", out.recs, t) EXCEPT
              !.cache.steam_games = out.recs]

steam_quick_scrape(d, out, t) ==
    IF out.raise THEN [d EXCEPT !.log = LogError(@, "Quick Steam scrape failed")]
    ELSE StoreIn(d, "steam_games", out.recs, t)

events_comprehensive_scrape(d, out, t) ==
    IF out.raise
    THEN [d EXCEPT !.log = LogError(@, "Comprehensive events scrape failed")]
    ELSE [StoreIn(d, "events", out.recs, t) EXCEPT !.cache.events = out.recs]

events_daily_scrape(d, out, t) ==
    IF out.raise THEN [d EXCEPT !.log = LogError(@, "Daily events scrape failed")]
    ELSE StoreIn(d, "events", out.recs, t)

\* comprehensive_analysis: the result is kept as "there is one"
comprehensive_analysis(d, out, t) ==
    IF out.raise
    THEN [d EXCEPT !.log = LogError(@, "Comprehensive analysis failed")]
    ELSE [d EXCEPT !.cache.analysis = TRUE, !.cache.last_updated = t]

\* parse_date(date_str): "none" (None is returned), or the datetime
parse_date(v) ==
    IF ~Truthy(v) THEN None
    ELSE IF IsStr(v) /\ IsoParses(ReplaceZ(v)) THEN FromIso(ReplaceZ(v))
    ELSE None

\* the filter of data_cleanup on one record: "keep", "drop", or "raise"
\* (a timezone-aware datetime cannot be compared with the naive cutoff)
CleanupVerdict(rec, t) ==
    LET parsed == parse_date(IF "scraped_at" \in DOMAIN rec
                             THEN rec["scraped_at"] ELSE Text(""))
        cutoff_date == t - data_retention_days * HoursPerDay
    IN IF parsed = None THEN "drop"
       ELSE IF IsAware(parsed) THEN "raise"
       ELSE IF parsed.w > cutoff_date THEN "keep" ELSE "drop"

RECURSIVE KeepRecent(_, _)
KeepRecent(list, t) ==
    IF list = <<>> THEN <<>>
    ELSE IF CleanupVerdict(Head(list), t) = "keep"
         THEN <<Head(list)>> \o KeepRecent(Tail(list), t)
         ELSE KeepRecent(Tail(list), t)

CleanupRaises(list, t) ==
    \E i \in 1..Len(list) :
        /\ CleanupVerdict(list[i], t) = "raise"
        /\ \A j \in 1..(i - 1) : CleanupVerdict(list[j], t) # "raise"

\* data_cleanup: the three lists are filtered and reassigned in turn; an
\* exception leaves the lists not yet reassigned as they were
data_cleanup(d, t) ==
    LET failed == [d EXCEPT !.log = LogError(@, "Data cleanup failed")]
    IN IF CleanupRaises(d.cache.apps, t) THEN failed
       ELSE IF CleanupRaises(d.cache.steam_games, t)
            THEN [failed EXCEPT !.cache.apps = KeepRecent(@, t)]
       ELSE IF CleanupRaises(d.cache.events, t)
            THEN [failed EXCEPT !.cache.apps = KeepRecent(@, t),
                                !.cache.steam_games = KeepRecent(@, t)]
       ELSE [d EXCEPT !.cache.apps = KeepRecent(@, t),
                      !.cache.steam_games = KeepRecent(@, t),
                      !.cache.events = KeepRecent(@, t)]

health_check(d) == d

\* job_name.replace('_scrape', '')
LastRunKey(job_name) ==
    CASE job_name = "app_store_full_scrape" -> "app_store_full"
      [] job_name = "app_store_quick_scrape" -> "app_store_quick"
      [] job_name = "steam_comprehensive_scrape" -> "steam_comprehensive"
      [] job_name = "steam_quick_scrape" -> "steam_quick"
      [] job_name = "events_comprehensive_scrape" -> "events_comprehensive"
      [] job_name = "events_daily_scrape" -> "events_daily"
      [] job_name = "reviews_scrape" -> "reviews"
      [] OTHER -> job_name

\* the dispatch of execute_job on the job name
JobBody(d, job_name, in, t) ==
    CASE job_name = "app_store_full_scrape" -> app_store_full_scrape(d, in, t)
      [] job_name = "app_store_quick_scrape" -> app_store_quick_scrape(d, in, t)
      [] job_name = "steam_comprehensive_scrape" -> steam_comprehensive_scrape(d, in, t)
      [] job_name = "steam_quick_scrape" -> steam_quick_scrape(d, in, t)
      [] job_name = "events_comprehensive_scrape" -> events_comprehensive_scrape(d, in, t)
      [] job_name = "events_daily_scrape" -> events_daily_scrape(d, in, t)
      [] job_name = "comprehensive_analysis" -> comprehensive_analysis(d, in, t)
      [] job_name = "data_cleanup" -> data_cleanup(d, t)
      [] job_name = "health_check" -> health_check(d)
      [] OTHER -> d

\* last_run_times[key] = datetime.now(): the key is created when missing
SetLastRun(lrt, key, t) ==
    [x \in DOMAIN lrt \cup {key} |-> IF x = key THEN t ELSE lrt[x]]

\* execute_job(job_name): the job body, then the last-run timestamp.  Every
\* job body catches what its producers raise, so the try block of
\* execute_job runs to its end; an unknown name only sets the status.
execute_job(d, lrt, job_name, in, t) ==
    [d |-> JobBody(d, job_name, in, t),
     lrt |-> SetLastRun(lrt, LastRunKey(job_name), t),
     status |-> IF job_name \in JobNames THEN "success" ELSE "error"]

(***************************************************************************)
(* What the source producers return.                                       *)
(***************************************************************************)
StaleWall == 0 - (data_retention_days * HoursPerDay) - 1

FeedRecords(k) ==
    CASE k = "apps" ->
            {MkRecord([app_store_id |-> Text("a1"), title |-> Text("T"),
                       rating |-> Num(1), scraped_at |-> Iso(0, "")]),
             MkRecord([app_store_id |-> Text("a1"), title |-> Text("T"),
                       rating |-> Num(2), scraped_at |-> Iso(0, "")]),
             MkRecord([app_store_id |-> Text("a2"), title |-> Text("T"),
                       rating |-> Num(1), scraped_at |-> Iso(StaleWall, "")])}
      [] k = "steam_games" ->
            {MkRecord([steam_id |-> Text("s1"), title |-> Text("T"),
                       price |-> Num(1), scraped_at |-> Iso(0, "")]),
             MkRecord([steam_id |-> Text("s1"), title |-> Text("T"),
                       price |-> Num(2), scraped_at |-> Iso(StaleWall, "")])}
      [] k = "events" ->
            {MkRecord([name |-> Text("e1"), start_date |-> Iso(0, "Z"),
                       description |-> Text("d1"), scraped_at |-> Iso(0, "")]),
             MkRecord([name |-> Text("e2"), start_date |-> Iso(0, "Z"),
                       description |-> Text("d1"), scraped_at |-> Iso(0, "")])}

\* a producer raises or returns a list
Outcomes(k) == {Raise} \cup {Return(b) : b \in Batches(FeedRecords(k))}

\* scrape_top_charts_all_regions for one chart type
ChartOutcomes ==
    {Raise,
     Return(<<MkRecord([app_store_id |-> Text("a1"), title |-> Text("T"),
                        rating |-> Num(1), scraped_at |-> Iso(0, "")]),
              MkRecord([app_store_id |-> Text("a2"), title |-> Text("T"),
                        rating |-> Num(1), scraped_at |-> Iso(StaleWall, "")])>>),
     Return(<<MkRecord([app_store_id |-> Text("a1"), title |-> Text("T"),
                        rating |-> Num(2), scraped_at |-> Iso(0, "")])>>)}

\* the kind of record a job scrapes
JobKind(job_name) ==
    CASE job_name \in {"app_store_full_scrape", "app_store_quick_scrape"} -> "apps"
      [] job_name \in {"steam_comprehensive_scrape", "steam_quick_scrape"} -> "steam_games"
      [] job_name \in {"events_comprehensive_scrape", "events_daily_scrape"} -> "events"
      [] OTHER -> "none"

\* the inputs of a job: with feed "none" the producers find nothing
JobInputs(job_name, fd) ==
    IF job_name = "app_store_full_scrape"
    THEN (IF fd = "live" THEN [1..Len(chart_types) -> ChartOutcomes]
          ELSE {[i \in 1..Len(chart_types) |-> Return(<<>>)]})
    ELSE IF JobKind(job_name) # "none"
    THEN (IF fd = "live" THEN Outcomes(JobKind(job_name)) ELSE {Return(<<>>)})
    ELSE IF job_name = "comprehensive_analysis"
    THEN (IF fd = "live" THEN {Raise, Return(<<>>)} ELSE {Return(<<>>)})
    ELSE {Return(<<>>)}

\* the records a job obtained from its producers, in order
RECURSIVE ChartRecords(_, _)
ChartRecords(charts, i) ==
    IF i > Len(chart_types) THEN <<>>
    ELSE (IF charts[i].raise THEN <<>> ELSE charts[i].recs)
         \o ChartRecords(charts, i + 1)

Scraped(job_name, in) ==
    IF job_name = "app_store_full_scrape" THEN ChartRecords(in, 1)
    ELSE IF in.raise THEN <<>> ELSE in.recs

(***************************************************************************)
(* execute_job called directly (the manual triggers of the dashboard),     *)
(* SpecJobs.  The dashboard builds the name from a selection, so a name    *)
(* that is no job can arrive.                                              *)
(***************************************************************************)
ManualNames == JobNames \cup {"reviews_scrape"}

ExecuteJob(job_name, in) ==
    /\ call.n < MaxCalls
    /\ LET r == execute_job([cache |-> data_cache, db |-> db, log |-> log],
                            last_run_times, job_name, in, now)
       IN /\ data_cache' = r.d.cache
          /\ db' = r.d.db
          /\ log' = r.d.log
          /\ last_run_times' = r.lrt
          /\ call' = [op |-> "job", kind |-> job_name, in |-> in,
                      batch |-> Scraped(job_name, in), prev |-> <<>>,
                      before |-> db, logBefore |-> log,
                      cacheBefore |-> data_cache,
                      ok |-> (r.status = "success"), raised |-> FALSE,
                      n |-> call.n + 1, last |-> call.last]
    /\ UNCHANGED <<now, schedVars, feed, san, frames, req>>

ManualJob == \E j \in ManualNames : \E in \in JobInputs(j, feed) : ExecuteJob(j, in)

InitJobs == InitPipeline /\ now = MaxTime /\ feed = "live" /\ san = NoSan /\ req = NoReq

NextJobs == ManualJob

SpecJobs == InitJobs /\ [][NextJobs]_vars

(***************************************************************************)
(* Claims about the cache (SpecJobs).                                      *)
(***************************************************************************)
\* the cache lists that the last job assigned
UpdatedKinds ==
    CASE call.op # "job" -> {}
      [] call.kind = "app_store_full_scrape" -> {"apps"}
      [] call.kind = "steam_comprehensive_scrape" ->
            IF call.in.raise THEN {} ELSE {"steam_games"}
      [] call.kind = "events_comprehensive_scrape" ->
            IF call.in.raise THEN {} ELSE {"events"}
      [] call.kind = "data_cleanup" -> Kinds
      [] OTHER -> {}

NoRepeatedKey(k, list) ==
    \A i, j \in 1..Len(list) :
        i < j => NaturalKey(k, list[i]) # NaturalKey(k, list[j])

\* the records of a list whose natural key has not come earlier in it
RECURSIVE FirstSeenFrom(_, _, _)
FirstSeenFrom(k, list, i) ==
    IF i > Len(list) THEN <<>>
    ELSE (IF \E j \in 1..(i - 1) : NaturalKey(k, list[j]) = NaturalKey(k, list[i])
          THEN <<>> ELSE <<list[i]>>)
         \o FirstSeenFrom(k, list, i + 1)

\* the list a scrape job builds the cache of kind k from
CacheSource(k) ==
    IF call.kind = "app_store_full_scrape"
    THEN call.cacheBefore[k] \o call.batch
    ELSE call.batch

\* C7: after a job that updates the cache of a kind, the cached list of
\* that kind has no two records with the same natural key, and the records
\* kept are the first-seen ones in their original order.
C7_CacheDeduplicated ==
    \A k \in UpdatedKinds :
        /\ NoRepeatedKey(k, data_cache[k])
        /\ call.kind # "data_cleanup"
              => data_cache[k] = FirstSeenFrom(k, CacheSource(k), 1)

\* the last job was a scrape that updates the cache, and none of its
\* producers raised
SuccessfulCacheScrape ==
    /\ call.op = "job" /\ call.ok
    /\ \/ /\ call.kind = "app_store_full_scrape"
          /\ \A i \in 1..Len(chart_types) : ~call.in[i].raise
       \/ /\ call.kind \in {"steam_comprehensive_scrape",
                            "events_comprehensive_scrape"}
          /\ ~call.in.raise

\* C8: after a successful scrape of a kind, the cache of that kind consists
\* only of records of that scrape: nothing cached earlier is retained and a
\* re-scraped entity is cached as newly scraped.
C8_SnapshotOfThisScrape ==
    SuccessfulCacheScrape =>
        LET k == JobKind(call.kind)
        IN /\ \A i \in 1..Len(data_cache[k]) :
                 \E j \in 1..Len(call.batch) : data_cache[k][i] = call.batch[j]
           /\ \A j \in 1..Len(call.batch) :
                 \E i \in 1..Len(data_cache[k]) :
                     NaturalKey(k, data_cache[k][i]) = NaturalKey(k, call.batch[j])

(***************************************************************************)
(* The scheduler: start_pipeline, stop_pipeline, the polling thread        *)
(* (run_scheduler, schedule.run_pending, run_job_async) and the workers of *)
(* the ThreadPoolExecutor (SpecSched).                                     *)
(*                                                                         *)
(* schedule.every(n).hours.do(f, name) appends a job to the process-wide   *)
(* list schedule.jobs with next_run = now + n hours; run_pending runs, in  *)
(* the order of next_run, the jobs with now >= next_run, and after each    *)
(* call of the job function sets last_run = now and next_run = now + n.    *)
(***************************************************************************)
max_workers == 4

\* self.config[...] and the literals of schedule_jobs, in hours
Interval(job_name) ==
    CASE job_name = "app_store_full_scrape" -> 6
      [] job_name = "app_store_quick_scrape" -> 1
      [] job_name = "steam_comprehensive_scrape" -> 12
      [] job_name = "steam_quick_scrape" -> 2
      [] job_name = "events_comprehensive_scrape" -> 24
      [] job_name = "events_daily_scrape" -> 6
      [] job_name = "comprehensive_analysis" -> 2
      [] job_name = "data_cleanup" -> 24
      [] job_name = "health_check" -> 12

\* the order in which schedule_jobs registers the jobs
ScheduleOrder ==
    <<"app_store_full_scrape", "app_store_quick_scrape",
      "steam_comprehensive_scrape", "steam_quick_scrape",
      "events_comprehensive_scrape", "events_daily_scrape",
      "comprehensive_analysis", "data_cleanup", "health_check">>

\* schedule_jobs at time t: the jobs appended to schedule.jobs
schedule_jobs_due_at_once(t) ==
    [i \in 1..Len(ScheduleOrder) |->
        [name |-> ScheduleOrder[i], interval |-> Interval(ScheduleOrder[i]),
         last_run |-> Never, next_run |-> t]]
schedule_jobs(t) ==
    [i \in 1..Len(ScheduleOrder) |->
        [name |-> ScheduleOrder[i], interval |-> Interval(ScheduleOrder[i]),
         last_run |-> Never, next_run |-> t + Interval(ScheduleOrder[i])]]

\* Job.should_run
should_run(job, t) == t >= job.next_run

\* sorted(job for job in self.jobs if job.should_run): the indexes of the
\* runnable jobs by next_run, jobs of equal next_run in list order
RECURSIVE SortedRunnable(_, _)
SortedRunnable(js, S) ==
    IF S = {} THEN <<>>
    ELSE LET m == CHOOSE i \in S :
                    \A j \in S : \/ js[i].next_run < js[j].next_run
                                 \/ js[i].next_run = js[j].next_run /\ i <= j
         IN <<m>> \o SortedRunnable(js, S \ {m})

Runnable(js, t) ==
    SortedRunnable(js, {i \in 1..Len(js) : should_run(js[i], t)})

\* Job.run after the job function returned: last_run and the next run
Rescheduled(job, t) ==
    [job EXCEPT !.last_run = t, !.next_run = t + job.interval]

Count(seq, x) == Cardinality({i \in 1..Len(seq) : seq[i] = x})

\* the names whose interval has elapsed at time t, counted from the latest
\* dispatch or, for a job not dispatched yet, from the first start_pipeline
ElapsedNames(h, t) ==
    {j \in JobNames :
        t - (IF h.last[j] # Never THEN h.last[j] ELSE h.started) >= Interval(j)}

\* the names dispatched less than their interval ago
RecentNames(h, t) ==
    {j \in JobNames : h.last[j] # Never /\ t - h.last[j] < Interval(j)}

NewThread ==
    [pc |-> "while", due |-> <<>>, ticks |-> 0, sent |-> <<>>,
     elapsed |-> {}, recent |-> {}, running |-> TRUE, caught |-> FALSE]

\* start_pipeline: a warning and nothing else when the pipeline is running;
\* otherwise the flag is set, the jobs are registered and a new scheduler
\* thread is started
start_pipeline_always ==
    /\ ctl = "idle"
    /\ Len(threads) < MaxStarts
    /\ is_running' = TRUE
    /\ jobs' = jobs \o schedule_jobs(now)
    /\ threads' = Append(threads, NewThread)
    /\ hist' = [hist EXCEPT !.started = IF @ = Never THEN now ELSE @]
    /\ UNCHANGED <<now, ctl, shutdown, pool, dataVars, feed, san, frames, req>>
start_pipeline ==
    /\ ctl = "idle"
    /\ IF is_running
       THEN /\ log' = LogError(log, "Pipeline is already running")
            /\ UNCHANGED <<now, schedVars, data_cache, db, last_run_times,
                           call, feed, san, frames, req>>
       ELSE /\ Len(threads) < MaxStarts
            /\ is_running' = TRUE
            /\ jobs' = jobs \o schedule_jobs(now)
            /\ threads' = Append(threads, NewThread)
            /\ hist' = [hist EXCEPT !.started = IF @ = Never THEN now ELSE @]
            /\ UNCHANGED <<now, ctl, shutdown, pool, dataVars, feed, san, frames, req>>

\* stop_pipeline, first statement: self.is_running = False
stop_pipeline_begin ==
    /\ ctl = "idle"
    /\ is_running
    /\ is_running' = FALSE
    /\ ctl' = "join"
    /\ UNCHANGED <<now, jobs, threads, shutdown, pool, hist, dataVars, feed, san, frames, req>>

\* self.scheduler_thread.join(timeout=10) returns: the thread has ended or
\* the ten seconds are over (the thread sleeps 60 seconds between polls)
stop_pipeline_join ==
    /\ ctl = "join"
    /\ ctl' = "shutdown"
    /\ UNCHANGED <<now, is_running, jobs, threads, shutdown, pool, hist,
                   dataVars, feed, san, frames, req>>

\* self.executor.shutdown(wait=True) marks the executor as shut down ...
stop_pipeline_shutdown_cancelling ==
    /\ ctl = "shutdown"
    /\ shutdown' = TRUE
    /\ ctl' = "wait"
    /\ pool' = SelectSeq(pool, LAMBDA w : w.st = "running")
    /\ UNCHANGED <<now, is_running, jobs, threads, hist, dataVars, feed, san, frames, req>>
stop_pipeline_shutdown ==
    /\ ctl = "shutdown"
    /\ shutdown' = TRUE
    /\ ctl' = "wait"
    /\ UNCHANGED <<now, is_running, jobs, threads, pool, hist, dataVars, feed, san, frames, req>>

\* ... and returns when the workers have run every work item
stop_pipeline_return ==
    /\ ctl = "wait"
    /\ pool = <<>>
    /\ ctl' = "idle"
    /\ UNCHANGED <<now, is_running, jobs, threads, shutdown, pool, hist,
                   dataVars, feed, san, frames, req>>

\* run_scheduler: the test of the while loop and, when it holds, the list of
\* runnable jobs that run_pending goes through
scheduler_poll(i) ==
    /\ threads[i].pc = "while"
    /\ threads' =
         [threads EXCEPT ![i] =
            IF is_running
            THEN [pc |-> "run_pending", due |-> Runnable(jobs, now),
                  ticks |-> IF @.ticks < 2 THEN @.ticks + 1 ELSE @.ticks,
                  sent |-> <<>>, elapsed |-> ElapsedNames(hist, now),
                  recent |-> RecentNames(hist, now), running |-> TRUE,
                  caught |-> @.caught]
            ELSE [@ EXCEPT !.pc = "done"]]
    /\ UNCHANGED <<now, is_running, jobs, ctl, shutdown, pool, hist, dataVars,
                   feed, san, frames, req>>

\* run_job_async, first statement: if not self.is_running: return.  The
\* schedule library then records the job as run.
run_job_async_check(i) ==
    /\ threads[i].pc = "run_pending"
    /\ threads[i].due # <<>>
    /\ IF is_running
       THEN /\ threads' = [threads EXCEPT ![i].pc = "run_job_async"]
            /\ jobs' = jobs
       ELSE /\ threads' = [threads EXCEPT ![i].due = Tail(@),
                                          ![i].running = FALSE]
            /\ jobs' = [jobs EXCEPT ![Head(threads[i].due)] = Rescheduled(@, now)]
    /\ UNCHANGED <<now, is_running, ctl, shutdown, pool, hist, dataVars, feed, san, frames, req>>

\* run_job_async, second statement: self.executor.submit(...).  After
\* shutdown submit raises RuntimeError, which leaves run_pending and is
\* caught in run_scheduler (logged, sleep 300 seconds, next iteration of the
\* while loop); the job is not rescheduled.
SubmitUncaught(i) ==
    LET x == Head(threads[i].due)
        name == jobs[x].name
    IN IF shutdown
       THEN /\ threads' = [threads EXCEPT ![i].pc = "done", ![i].due = <<>>,
                                          ![i].running = @ /\ is_running,
                                          ![i].caught = TRUE]
            /\ log' = log
            /\ UNCHANGED <<pool, jobs, hist>>
       ELSE /\ Len(pool) < MaxPool
            /\ pool' = Append(pool, [job |-> name, st |-> "queued"])
            /\ jobs' = [jobs EXCEPT ![x] = Rescheduled(@, now)]
            /\ threads' = [threads EXCEPT ![i].pc = "run_pending",
                                          ![i].due = Tail(@),
                                          ![i].sent = Append(@, name),
                                          ![i].running = @ /\ is_running]
            /\ hist' = [hist EXCEPT !.count[name] = @ + 1,
                                    !.first[name] = IF @ = Never THEN now ELSE @,
                                    !.last[name] = now]
            /\ log' = log
Submit(i) ==
    LET x == Head(threads[i].due)
        name == jobs[x].name
    IN IF shutdown
       THEN /\ threads' = [threads EXCEPT ![i].pc = "sleep", ![i].due = <<>>,
                                          ![i].running = @ /\ is_running,
                                          ![i].caught = TRUE]
            /\ log' = LogError(log, "Scheduler error")
            /\ UNCHANGED <<pool, jobs, hist>>
       ELSE /\ Len(pool) < MaxPool
            /\ pool' = Append(pool, [job |-> name, st |-> "queued"])
            /\ jobs' = [jobs EXCEPT ![x] = Rescheduled(@, now)]
            /\ threads' = [threads EXCEPT ![i].pc = "run_pending",
                                          ![i].due = Tail(@),
                                          ![i].sent = Append(@, name),
                                          ![i].running = @ /\ is_running]
            /\ hist' = [hist EXCEPT !.count[name] = @ + 1,
                                    !.first[name] = IF @ = Never THEN now ELSE @,
                                    !.last[name] = now]
            /\ log' = log

run_job_async_submit(i) ==
    /\ threads[i].pc = "run_job_async"
    /\ Submit(i)
    /\ UNCHANGED <<now, is_running, ctl, shutdown, last_run_times, data_cache,
                   db, call, feed, san, frames, req>>

\* run_pending has gone through its list: time.sleep(60)
scheduler_sleep(i) ==
    /\ threads[i].pc = "run_pending"
    /\ threads[i].due = <<>>
    /\ threads' = [threads EXCEPT ![i].pc = "sleep"]
    /\ UNCHANGED <<now, is_running, jobs, ctl, shutdown, pool, hist, dataVars,
                   feed, san, frames, req>>

\* the sleep is over
scheduler_wake(i) ==
    /\ threads[i].pc = "sleep"
    /\ threads' = [threads EXCEPT ![i].pc = "while"]
    /\ UNCHANGED <<now, is_running, jobs, ctl, shutdown, pool, hist, dataVars,
                   feed, san, frames, req>>

RemoveAt(seq, p) == [i \in 1..(Len(seq) - 1) |-> IF i < p THEN seq[i] ELSE seq[i + 1]]

\* a worker thread of the executor takes the oldest queued work item
worker_take(p) ==
    /\ pool[p].st = "queued"
    /\ \A q \in 1..(p - 1) : pool[q].st = "running"
    /\ Cardinality({q \in 1..Len(pool) : pool[q].st = "running"}) < max_workers
    /\ pool' = [pool EXCEPT ![p].st = "running"]
    /\ UNCHANGED <<now, is_running, jobs, threads, ctl, shutdown, hist, dataVars,
                   feed, san, frames, req>>

\* the worker runs execute_job(job_name) to its end
worker_run(p) ==
    /\ pool[p].st = "running"
    /\ \E in \in JobInputs(pool[p].job, feed) :
         LET r == execute_job([cache |-> data_cache, db |-> db, log |-> log],
                              last_run_times, pool[p].job, in, now)
         IN /\ data_cache' = r.d.cache
            /\ db' = r.d.db
            /\ log' = r.d.log
            /\ last_run_times' = r.lrt
    /\ pool' = RemoveAt(pool, p)
    /\ UNCHANGED <<now, is_running, jobs, threads, ctl, shutdown, hist, call,
                   feed, san, frames, req>>

\* an hour passes
advance_clock ==
    /\ now < MaxTime
    /\ now' = now + 1
    /\ UNCHANGED <<schedVars, dataVars, feed, san, frames, req>>

InitSched == InitPipeline /\ now = 0 /\ feed = "none" /\ san = NoSan /\ req = NoReq

NextSched ==
    \/ start_pipeline
    \/ stop_pipeline_begin
    \/ stop_pipeline_join
    \/ stop_pipeline_shutdown
    \/ stop_pipeline_return
    \/ \E i \in 1..Len(threads) : scheduler_poll(i)
    \/ \E i \in 1..Len(threads) : run_job_async_check(i)
    \/ \E i \in 1..Len(threads) : run_job_async_submit(i)
    \/ \E i \in 1..Len(threads) : scheduler_sleep(i)
    \/ \E i \in 1..Len(threads) : scheduler_wake(i)
    \/ \E p \in 1..Len(pool) : worker_take(p)
    \/ \E p \in 1..Len(pool) : worker_run(p)
    \/ advance_clock

SpecSched == InitSched /\ [][NextSched]_vars

\* get_pipeline_status: what a status query returns
get_pipeline_status ==
    [is_running |-> is_running,
     last_run_times |-> last_run_times,
     cache_summary |-> [apps |-> Len(data_cache.apps),
                        steam_games |-> Len(data_cache.steam_games),
                        events |-> Len(data_cache.events),
                        last_analysis |-> data_cache.last_updated]]

(***************************************************************************)
(* Claims about the scheduler (SpecSched).                                 *)
(***************************************************************************)
InFlight(job_name) == Count([p \in 1..Len(pool) |-> pool[p].job], job_name)

\* C1: for every job name, at most one invocation dispatched by the
\* scheduler is in flight (queued or running) at any time.
C1_NoOverlappingInvocations == \A j \in JobNames : InFlight(j) <= 1

\* C2: once stop() has set is_running to false, no job is submitted to the
\* worker pool, whatever the interleaving with a poll in progress.
C2_NoSubmitAfterStop == [][~is_running => Len(pool') <= Len(pool)]_vars

\* a poll of thread i has ended during which the pipeline was running at
\* every test of is_running and at every submit
PollEnded(i) ==
    threads[i].pc = "sleep" /\ threads[i].ticks > 0 /\ threads[i].running

\* C9: on a scheduler tick a job dispatched less than its interval ago is
\* not dispatched, and a job whose interval has elapsed is dispatched
\* exactly once.
C9_DispatchedOncePerDueTick ==
    \A i \in 1..Len(threads) :
        PollEnded(i) =>
            \A j \in JobNames :
                /\ j \in threads[i].recent => Count(threads[i].sent, j) = 0
                /\ j \in threads[i].elapsed => Count(threads[i].sent, j) = 1

DeclaredLastRunKey(job_name) ==
    IF job_name = "comprehensive_analysis" THEN "analysis"
    ELSE LastRunKey(job_name)

\* C11: when a job invocation completes, succeeded or failed, the job's
\* last-run timestamp in last_run_times is the completion time.
C11_LastRunSetOnCompletion ==
    (call.op = "job" /\ call.kind \in JobNames) =>
        /\ DeclaredLastRunKey(call.kind) \in DOMAIN last_run_times
        /\ last_run_times[DeclaredLastRunKey(call.kind)] = now

\* a producer of the last job raised
ProducerRaised ==
    /\ call.op = "job"
    /\ IF call.kind = "app_store_full_scrape"
       THEN \E i \in 1..Len(chart_types) : call.in[i].raise
       ELSE call.in.raise

\* C12: when a source producer raises during a scrape job, the outcome
\* recorded for that job run is a failure, never 'success'.
C12_ProducerFailureRecorded ==
    (ProducerRaised /\ JobKind(call.kind) # "none") => ~call.ok

(***************************************************************************)
(* Claims about the lifecycle (SpecSched).                                 *)
(***************************************************************************)
\* C13: start() called while the pipeline is running registers no job,
\* starts no polling thread and leaves is_running true.
C13_StartWhileRunningIsNoOp ==
    [][(is_running /\ start_pipeline) =>
          (jobs' = jobs /\ threads' = threads /\ is_running')]_vars

\* start() was called on the running pipeline: the warning is the latest
\* log entry, one thread and one registration of the nine jobs exist
C13_Witness ==
    /\ is_running
    /\ log # <<>> /\ log[Len(log)] = "Pipeline is already running"
    /\ Len(threads) = 1
    /\ Len(jobs) = Len(ScheduleOrder)

\* a work item left the pool in this step
PoolShrinks == Len(pool') < Len(pool)

\* execute_job of a work item that a worker was running came to its end
RanToCompletion ==
    \E p \in 1..Len(pool) : pool[p].st = "running" /\ pool' = RemoveAt(pool, p)

\* C14: stop() cancels no in-flight job (a work item leaves the pool only
\* by being run to its end, also while stop() is in progress), and stop()
\* returns only when no work item is left.
C14_StopLetsJobsFinish ==
    [][/\ PoolShrinks => RanToCompletion
       /\ (ctl = "wait" /\ ctl' = "idle") => pool = <<>>]_vars

\* stop() has shut the executor down and waits, with one job running and
\* another still queued
C14_Witness ==
    /\ ctl = "wait" /\ shutdown /\ ~is_running
    /\ \E p \in 1..Len(pool) : pool[p].st = "running"
    /\ \E p \in 1..Len(pool) : pool[p].st = "queued"

\* C15: while a job is in flight during stop(), a status query still
\* reports is_running as true.
C15_RunningUntilPoolDrained ==
    (ctl # "idle" /\ \E p \in 1..Len(pool) : pool[p].st = "running")
        => get_pipeline_status.is_running

(***************************************************************************)
(* Further claims about the store calls (SpecStore).                       *)
(***************************************************************************)
\* C16: a record without a usable natural key is discarded by the store
\* call, so no row of any table is without one.
C16_KeylessRecordsDiscarded ==
    \A k \in Kinds : \A x \in 1..Len(db[k]) : HasKey(k, db[k][x])

HasCompositeKey(r) == Truthy(Get(r, "name")) /\ Truthy(Get(r, "start_date"))

\* C17: events are keyed by name and date: after a store call every event
\* of the batch has a row of its own name and date, and every event stored
\* before still has its row.
C17_EventsKeyedByNameAndDate ==
    (call.op = "store" /\ call.kind = "events" /\ call.ok) =>
        /\ \A i \in 1..Len(call.batch) :
              HasCompositeKey(call.batch[i]) =>
                 \E x \in 1..Len(db.events) :
                    NaturalKey("events", db.events[x])
                       = NaturalKey("events", Sanitize(call.batch[i], now))
        /\ \A y \in 1..Len(call.before) :
              HasCompositeKey(call.before[y]) =>
                 \E x \in 1..Len(db.events) :
                    NaturalKey("events", db.events[x])
                       = NaturalKey("events", call.before[y])

\* the records of the last batch that found row x of the table
Targeting(x) ==
    {i \in 1..Len(call.batch) :
        FirstRow(call.kind, call.before,
                 Get(Sanitize(call.batch[i], now), KeyCol(call.kind))) = x}

\* the records among them that name column c
Naming(x, c) == {i \in Targeting(x) : c \in DOMAIN call.batch[i]}

\* C18: in a row that a store call found, the columns named in the
\* incoming record are overwritten and every other column keeps the value
\* it had before the call.
C18_PartialUpdate ==
    (call.op = "store" /\ call.ok) =>
        \A x \in 1..Len(call.before) : \A c \in Columns(call.kind) :
            IF Naming(x, c) = {}
            THEN db[call.kind][x][c] = call.before[x][c]
            ELSE LET i == CHOOSE m \in Naming(x, c) : \A n \in Naming(x, c) : n <= m
                 IN db[call.kind][x][c] = Sanitize(call.batch[i], now)[c]

\* a record updated a row and did not name a column that held a value: the
\* value is still there, while a column it named has changed
C18_Witness ==
    /\ call.op = "store" /\ call.ok
    /\ \E x \in 1..Len(call.before) : \E c, c2 \in Columns(call.kind) :
          /\ Targeting(x) # {} /\ Naming(x, c) = {} /\ Naming(x, c2) # {}
          /\ call.before[x][c] # None
          /\ db[call.kind][x][c] = call.before[x][c]
          /\ db[call.kind][x][c2] # call.before[x][c2]

(***************************************************************************)
(* Further claims about the sanitizer (SpecSanitize).                      *)
(***************************************************************************)
\* the eight field names that the claims call the recognized ones
RecognizedFields ==
    {"last_updated", "scraped_at", "release_date", "start_date", "end_date",
     "timestamp", "created_at", "updated_at"}

\* C19: the sanitizer returns a mapping with the keys of its input; a value
\* under a key outside the eight recognized names, and a value that is
\* neither a string nor a datetime, is returned unchanged.
C19_OnlyRecognizedFieldsRewritten ==
    san.done =>
        /\ DOMAIN san.out = DOMAIN san.in
        /\ \A f \in DOMAIN san.in :
              (f \notin RecognizedFields
                  \/ ~(IsStr(san.in[f]) \/ IsDatetime(san.in[f])))
              => san.out[f] = san.in[f]

\* C20: the sanitizer returns normally, and a recognized field that held a
\* string that is not valid ISO-8601 holds the current timezone-naive time.
C20_UnparsableBecomesNow ==
    san.done =>
        \A f \in RecognizedFields \cap DOMAIN san.in :
            (IsStr(san.in[f]) /\ ~IsoParses(ReplaceZ(san.in[f])))
            => san.out[f] = NowDt(san.at)

(***************************************************************************)
(* Further claims about the jobs (SpecJobs).                               *)
(***************************************************************************)
\* the last job was a scrape whose producer returned records
ScrapeObtainedRecords ==
    /\ call.op = "job" /\ JobKind(call.kind) # "none"
    /\ call.batch # <<>>

\* C23: in every scrape job invocation that obtains records, the records
\* are persisted and the cache of that entity kind is then updated with
\* them: every obtained record that has a key is found, by its key, in the
\* cached list of its kind when the job has ended.
C23_PersistThenCacheUpdate ==
    ScrapeObtainedRecords =>
        LET k == JobKind(call.kind)
        IN \A i \in 1..Len(call.batch) :
               HasKey(k, call.batch[i]) =>
                   \E j \in 1..Len(data_cache[k]) :
                       Get(data_cache[k][j], KeyCol(k))
                           = Get(call.batch[i], KeyCol(k))

\* the seven entries of last_run_times that __init__ creates
DeclaredLastRunKeys ==
    {"app_store_full", "app_store_quick", "steam_comprehensive",
     "steam_quick", "events_comprehensive", "events_daily", "analysis"}

\* C25: the key set of last_run_times stays the seven entries created at
\* construction, and after comprehensive_analysis has completed the
\* 'analysis' entry is not None.
C25_LastRunKeysFixed ==
    /\ DOMAIN last_run_times = DeclaredLastRunKeys
    /\ (call.op = "job" /\ call.kind = "comprehensive_analysis")
           => last_run_times["analysis"] # Never

\* C28: execute_job with a name that is not one of the nine jobs returns
\* status 'error' and leaves last_run_times and the cache unchanged.
C28_UnknownJobChangesNothing ==
    [][(call'.op = "job" /\ call'.n = call.n + 1 /\ call'.kind \notin JobNames)
          => (~call'.ok /\ last_run_times' = last_run_times
                        /\ data_cache' = data_cache)]_vars

(***************************************************************************)
(* Further claims about the scheduler (SpecSched).                         *)
(***************************************************************************)
\* C24: an exception raised during a scheduler tick does not terminate the
\* polling loop: the tick that raised is logged and ends in the sleep of
\* the loop, and a scheduler thread ends only at a test of the while
\* condition that finds is_running false.
C24_LoopSurvivesExceptions ==
    [][\A i \in 1..Len(threads) :
          /\ (threads[i].pc # "done" /\ threads'[i].pc = "done") => ~is_running
          /\ (~threads[i].caught /\ threads'[i].caught)
                => /\ threads'[i].pc = "sleep"
                   /\ log' = LogError(log, "Scheduler error")]_vars

\* a scheduler thread whose tick raised is polling again while the
\* pipeline is running
C24_Witness ==
    \E i \in 1..Len(threads) :
        /\ threads[i].caught /\ threads[i].pc = "run_pending"
        /\ is_running
        /\ \E m \in 1..Len(log) : log[m] = "Scheduler error"

\* C26: after stop() has returned and a later start() has set the pipeline
\* running again, a due job that the scheduler hands to the worker pool
\* enters the pool.
C26_RestartDispatches ==
    [][\A i \in 1..Len(threads) :
          (/\ shutdown /\ ctl = "idle" /\ is_running
           /\ threads[i].pc = "run_job_async"
           /\ threads'[i].pc # "run_job_async")
          => Len(pool') = Len(pool) + 1]_vars

\* C27: after any sequence of start() and stop() calls each of the nine
\* jobs is registered at most once in the schedule.
C27_RegisteredOnce ==
    \A j \in JobNames :
        Count([x \in 1..Len(jobs) |-> jobs[x].name], j) <= 1

(***************************************************************************)
(* data_cleanup on a cache that holds records of every form of scraped_at  *)
(* (SpecCleanup).  The job runs at hour 0; a record scraped at hour 0 is   *)
(* recent, one scraped at StaleWall is older than the retention period.    *)
(***************************************************************************)
ScrapedAtForms ==
    {Absent, Text("yesterday"),
     Iso(0, ""), Iso(StaleWall, ""), Iso(0, "Z"), Iso(0, "+01:00"),
     Dt(0, ""), Dt(StaleWall, ""), Dt(0, "+00:00")}

CleanupRecords(k) ==
    {MkRecord([x \in {KeyCol(k), "scraped_at"} |->
                  IF x = "scraped_at" THEN v ELSE CHOOSE id \in KeyValues(k) : TRUE])
        : v \in ScrapedAtForms}

InitCleanup ==
    /\ now = 0 /\ feed = "none" /\ san = NoSan /\ req = NoReq
    /\ is_running = FALSE /\ shutdown = FALSE /\ ctl = "idle"
    /\ pool = <<>> /\ threads = <<>> /\ jobs = <<>> /\ frames = <<>>
    /\ hist = NoHist /\ call = NoCall /\ log = <<>>
    /\ db = [k \in Kinds |-> <<>>]
    /\ last_run_times = [j \in DeclaredLastRunKeys |-> Never]
    /\ \E apps \in UNION {[1..n -> CleanupRecords("apps")] : n \in 0..MaxList} :
       \E games \in {<<>>} \cup
                    {<<MkRecord([steam_id |-> Text("s1"), scraped_at |-> v])>> :
                        v \in {Iso(0, ""), Iso(0, "Z")}} :
       \E events \in {<<>>} \cup
                     {<<MkRecord([name |-> Text("e1"), scraped_at |-> v])>> :
                         v \in {Iso(0, ""), Dt(0, "")}} :
          data_cache = [apps |-> apps, steam_games |-> games, events |-> events,
                        analysis |-> FALSE, last_updated |-> Never]

NextCleanup ==
    \E in \in JobInputs("data_cleanup", feed) : ExecuteJob("data_cleanup", in)

SpecCleanup == InitCleanup /\ [][NextCleanup]_vars

\* the UTC offset, in hours, that a timestamp carries
OffsetHours(v) == IF v.z = "+01:00" THEN 1 ELSE 0

\* the value is a timestamp: a datetime, or an ISO-8601 string
DenotesTime(v) == IsDatetime(v) \/ (IsStr(v) /\ IsoParses(ReplaceZ(v)))

\* the record was scraped later than the retention period before hour t
ScrapedAfterCutoff(rec, t) ==
    /\ "scraped_at" \in DOMAIN rec
    /\ DenotesTime(rec["scraped_at"])
    /\ rec["scraped_at"].w - OffsetHours(ReplaceZ(rec["scraped_at"]))
          > t - data_retention_days * HoursPerDay

Scrapers == {"EnhancedAppStoreScraper", "EnhancedSteamScraper",
             "ComprehensiveEventsScraper"}

\* the hourly request limit tested in rate_limit
RequestLimit(scraper) ==
    CASE scraper = "EnhancedAppStoreScraper" -> 100
      [] scraper = "EnhancedSteamScraper" -> 200
      [] scraper = "ComprehensiveEventsScraper" -> 300

\* make_request(url, retries=r) is entered
NewRequest(scraper, r, count) ==
    [pc |-> "for", scraper |-> scraper, retries |-> r, attempt |-> 0,
     outcomes |-> <<>>, request_count |-> count, slept |-> 0,
     result |-> "pending"]

\* for attempt in range(retries): the next value, or the loop is exhausted
\* and the return None after the loop is reached
request_for ==
    /\ req.pc = "for"
    /\ req' = IF req.attempt < req.retries
              THEN [req EXCEPT !.pc = "rate_limit"]
              ELSE [req EXCEPT !.pc = "done", !.result = "None"]
    /\ UNCHANGED <<now, schedVars, dataVars, feed, san, frames>>

\* self.rate_limit(): the counter is reset when the hour is over, the call
\* sleeps until the reset time when the limit is reached, and the request
\* is counted
request_rate_limit ==
    /\ req.pc = "rate_limit"
    /\ \E reset \in {"passed", "reached", "ahead"} :
         LET counted == IF reset = "passed" THEN 0 ELSE req.request_count
             sleeps == counted >= RequestLimit(req.scraper) /\ reset = "ahead"
         IN req' = [req EXCEPT !.pc = "get",
                               !.request_count = (IF sleeps THEN 0 ELSE counted) + 1,
                               !.slept = IF sleeps THEN 1 ELSE @]
    /\ UNCHANGED <<now, schedVars, dataVars, feed, san, frames>>

\* session.get(...) and response.raise_for_status(): a response is returned
\* at once; a RequestException on the last attempt returns None, on an
\* earlier one leads to the backoff; any other exception leaves the call
request_get_continue ==
    /\ req.pc = "get"
    /\ \E outcome \in {"response", "RequestException", "Exception"} :
         req' = [req EXCEPT
                   !.outcomes = Append(@, outcome),
                   !.pc = CASE outcome = "response" -> "backoff"
                            [] outcome = "Exception" -> "done"
                            [] OTHER -> IF req.attempt = req.retries - 1
                                        THEN "done" ELSE "backoff",
                   !.result = CASE outcome = "response" -> "response"
                                [] outcome = "Exception" -> "raised"
                                [] OTHER -> IF req.attempt = req.retries - 1
                                            THEN "None" ELSE @]
    /\ UNCHANGED <<now, schedVars, dataVars, feed, san, frames>>
request_get ==
    /\ req.pc = "get"
    /\ \E outcome \in {"response", "RequestException", "Exception"} :
         req' = [req EXCEPT
                   !.outcomes = Append(@, outcome),
                   !.pc = CASE outcome = "response" -> "done"
                            [] outcome = "Exception" -> "done"
                            [] OTHER -> IF req.attempt = req.retries - 1
                                        THEN "done" ELSE "backoff",
                   !.result = CASE outcome = "response" -> "response"
                                [] outcome = "Exception" -> "raised"
                                [] OTHER -> IF req.attempt = req.retries - 1
                                            THEN "None" ELSE @]
    /\ UNCHANGED <<now, schedVars, dataVars, feed, san, frames>>

\* time.sleep((2 ** attempt) + random.uniform(...)), then the next attempt
request_backoff ==
    /\ req.pc = "backoff"
    /\ req' = [req EXCEPT !.pc = "for", !.attempt = @ + 1]
    /\ UNCHANGED <<now, schedVars, dataVars, feed, san, frames>>

InitRequest ==
    /\ InitPipeline /\ now = 0 /\ feed = "none" /\ san = NoSan
    /\ \E scraper \in Scrapers : \E r \in 0..MaxRetries :
       \E count \in {0, RequestLimit(scraper)} :
          req = NewRequest(scraper, r, count)

NextRequest ==
    \/ request_for
    \/ request_rate_limit
    \/ request_get
    \/ request_backoff

\* every step of the call is taken by the calling thread, which is not
\* held up for ever: the sleeps are finite and the HTTP call has a timeout
SpecRequest == InitRequest /\ [][NextRequest]_vars /\ WF_vars(NextRequest)

AllFailed(outcomes) ==
    \A i \in 1..Len(outcomes) : outcomes[i] = "RequestException"

\* what holds of a make_request call at every moment
RequestWithinRetries ==
    /\ Len(req.outcomes) <= req.retries
    /\ \A i \in 1..(Len(req.outcomes) - 1) : req.outcomes[i] = "RequestException"
    /\ req.result = "response"
          <=> (req.outcomes # <<>>
               /\ req.outcomes[Len(req.outcomes)] = "response")
    /\ req.result = "response" => req.pc = "done"
    /\ req.result = "None"
          <=> (req.pc = "done" /\ Len(req.outcomes) = req.retries
               /\ AllFailed(req.outcomes))

\* C30: make_request performs at most `retries` HTTP attempts, returns the
\* response of the first attempt that succeeds without making any further
\* attempt, returns None once `retries` attempts have all failed with a
\* request exception, and always terminates.
C30_BoundedRetries == []RequestWithinRetries /\ <>(req.pc = "done")

\* the second of three allowed attempts succeeded and the call returned its
\* response; the third attempt was not made
C30_Witness ==
    /\ req.pc = "done" /\ req.result = "response" /\ req.retries = 3
    /\ req.outcomes = <<"RequestException", "response">>

(***************************************************************************)
(* Job invocations that overlap (SpecConc).  execute_job runs on the four  *)
(* workers of the executor and, for the manual triggers, on the dashboard  *)
(* thread; no lock is taken anywhere in data_pipeline.py.  A frame is one  *)
(* invocation in progress: its job, the outcomes of its producers, its     *)
(* position pc, the loop index i, the batch being stored, the rows its     *)
(* session has read (base), changed (work) and added (pending), and the    *)
(* list it has built and not yet assigned (list).  One step is one         *)
(* statement on shared data: the queries of a store call, its commit, a    *)
(* list.extend, the build of a new list, the assignment of a list.         *)
(***************************************************************************)
ConcJobs == {"app_store_full_scrape", "app_store_quick_scrape",
             "steam_comprehensive_scrape", "data_cleanup"}

\* the producer outcomes of the overlapping invocations
ConcInputs(job_name) ==
    {in \in JobInputs(job_name, "live") :
        CASE job_name = "app_store_full_scrape" ->
                ~in[1].raise /\ in[3].raise /\ in[4].raise
          [] job_name \in {"app_store_quick_scrape", "steam_comprehensive_scrape"} ->
                Len(in.recs) <= 1
          [] OTHER -> TRUE}

FirstPc(job_name) ==
    CASE job_name = "app_store_full_scrape" -> "chart"
      [] job_name = "app_store_quick_scrape" -> "trending"
      [] job_name = "steam_comprehensive_scrape" -> "produce"
      [] job_name = "data_cleanup" -> "cleanup_filter"

NewFrame(job_name, in) ==
    [job |-> job_name, in |-> in, pc |-> FirstPc(job_name), i |-> 1,
     batch |-> <<>>, base |-> <<>>, work |-> <<>>, pending |-> <<>>,
     list |-> <<>>]

\* a step of frame f: the frame and the shared data after it
ConcStep(f, frame, cache, database, lg, lrt) ==
    /\ frames' = [frames EXCEPT ![f] = frame]
    /\ data_cache' = cache
    /\ db' = database
    /\ log' = lg
    /\ last_run_times' = lrt
    /\ UNCHANGED <<now, schedVars, call, feed, san, req>>

\* a thread enters execute_job(job_name)
execute_job_enter(job_name, in) ==
    /\ Len(frames) < MaxFrames
    /\ frames' = Append(frames, NewFrame(job_name, in))
    /\ UNCHANGED <<now, schedVars, dataVars, feed, san, req>>

\* app_store_full_scrape, head of the loop over the chart types: the
\* producer of chart i raises (logged, next chart) or returns the apps
full_scrape_chart(f) ==
    /\ frames[f].pc = "chart"
    /\ LET fr == frames[f]
       IN IF fr.i > Len(chart_types)
          THEN ConcStep(f, [fr EXCEPT !.pc = "dedup_read"],
                        data_cache, db, log, last_run_times)
          ELSE IF fr.in[fr.i].raise
          THEN ConcStep(f, [fr EXCEPT !.i = @ + 1], data_cache, db,
                        LogError(log, "Error scraping chart"), last_run_times)
          ELSE ConcStep(f, [fr EXCEPT !.pc = "store_query",
                                      !.batch = fr.in[fr.i].recs],
                        data_cache, db, log, last_run_times)

\* app_store_quick_scrape: get_trending_analysis, then one store call per
\* trending app
quick_scrape_trending(f) ==
    /\ frames[f].pc = "trending"
    /\ LET fr == frames[f]
       IN IF fr.in.raise
          THEN ConcStep(f, [fr EXCEPT !.pc = "finish"], data_cache, db,
                        LogError(log, "Quick App Store scrape failed"),
                        last_run_times)
          ELSE IF fr.i > Len(fr.in.recs)
          THEN ConcStep(f, [fr EXCEPT !.pc = "finish"],
                        data_cache, db, log, last_run_times)
          ELSE ConcStep(f, [fr EXCEPT !.pc = "store_query",
                                      !.batch = <<fr.in.recs[fr.i]>>],
                        data_cache, db, log, last_run_times)

\* steam_comprehensive_scrape: scrape_comprehensive_steam_data
comprehensive_scrape_produce(f) ==
    /\ frames[f].pc = "produce"
    /\ LET fr == frames[f]
       IN IF fr.in.raise
          THEN ConcStep(f, [fr EXCEPT !.pc = "finish"], data_cache, db,
                        LogError(log, "Comprehensive Steam scrape failed"),
                        last_run_times)
          ELSE ConcStep(f, [fr EXCEPT !.pc = "store_query",
                                      !.batch = fr.in.recs],
                        data_cache, db, log, last_run_times)

\* a store call up to its commit: a new session, and for every record of
\* the batch the lookup, then the update of the row found or session.add
store_query(f) ==
    /\ frames[f].pc = "store_query"
    /\ LET fr == frames[f]
           k == JobKind(fr.job)
           s == StoreLoop(k, db[k], db[k], <<>>, fr.batch, 1, now)
       IN ConcStep(f, [fr EXCEPT !.pc = "store_commit", !.base = db[k],
                                 !.work = s.work, !.pending = s.pending],
                   data_cache, db, log, last_run_times)

\* the table after the session's flush: the columns the session changed in
\* the rows it had read, the rows added by it at the end
Flushed(k, table, fr) ==
    [x \in 1..Len(table) |->
        IF x <= Len(fr.base)
        THEN [c \in Columns(k) |->
                 IF fr.work[x][c] # fr.base[x][c] THEN fr.work[x][c]
                 ELSE table[x][c]]
        ELSE table[x]] \o fr.pending

AfterStore(fr) ==
    CASE fr.job = "app_store_full_scrape" -> [fr EXCEPT !.pc = "extend"]
      [] fr.job = "app_store_quick_scrape" ->
            [fr EXCEPT !.pc = "trending", !.i = @ + 1]
      [] fr.job = "steam_comprehensive_scrape" -> [fr EXCEPT !.pc = "cache_assign"]

\* session.commit() of the store call: the database applies the flush as
\* one transaction, or raises IntegrityError and the except clause logs
store_commit(f) ==
    /\ frames[f].pc = "store_commit"
    /\ LET fr == frames[f]
           k == JobKind(fr.job)
           full == Flushed(k, db[k], fr)
           next == [AfterStore(fr) EXCEPT !.base = <<>>, !.work = <<>>,
                                          !.pending = <<>>]
       IN IF ViolatesConstraints(k, full)
          THEN ConcStep(f, next, data_cache, db,
                        LogError(log, StoreErrorMsg(k)), last_run_times)
          ELSE ConcStep(f, next, data_cache, [db EXCEPT ![k] = full], log,
                        last_run_times)

\* self.data_cache['apps'].extend(apps)
cache_extend(f) ==
    /\ frames[f].pc = "extend"
    /\ LET fr == frames[f]
       IN ConcStep(f, [fr EXCEPT !.pc = "chart", !.i = @ + 1],
                   [data_cache EXCEPT !.apps = @ \o fr.batch],
                   db, log, last_run_times)

\* deduplicate_apps_cache: the loop that builds unique_apps ...
dedup_read(f) ==
    /\ frames[f].pc = "dedup_read"
    /\ ConcStep(f, [frames[f] EXCEPT
                       !.pc = "dedup_assign",
                       !.list = deduplicate_apps_cache(data_cache.apps)],
                data_cache, db, log, last_run_times)

\* ... and self.data_cache['apps'] = unique_apps
dedup_assign(f) ==
    /\ frames[f].pc = "dedup_assign"
    /\ ConcStep(f, [frames[f] EXCEPT !.pc = "finish", !.list = <<>>],
                [data_cache EXCEPT !.apps = frames[f].list],
                db, log, last_run_times)

\* self.data_cache['steam_games'] = games
cache_assign(f) ==
    /\ frames[f].pc = "cache_assign"
    /\ ConcStep(f, [frames[f] EXCEPT !.pc = "finish"],
                [data_cache EXCEPT ![JobKind(frames[f].job)] = frames[f].batch],
                db, log, last_run_times)

\* the order in which data_cleanup goes through the cache lists
CleanupOrder == <<"apps", "steam_games", "events">>

\* data_cleanup: the list comprehension over list i ...
cleanup_filter(f) ==
    /\ frames[f].pc = "cleanup_filter"
    /\ LET fr == frames[f]
       IN IF fr.i > Len(CleanupOrder)
          THEN ConcStep(f, [fr EXCEPT !.pc = "finish"],
                        data_cache, db, log, last_run_times)
          ELSE IF CleanupRaises(data_cache[CleanupOrder[fr.i]], now)
          THEN ConcStep(f, [fr EXCEPT !.pc = "finish"], data_cache, db,
                        LogError(log, "Data cleanup failed"), last_run_times)
          ELSE ConcStep(f, [fr EXCEPT
                              !.pc = "cleanup_assign",
                              !.list = KeepRecent(data_cache[CleanupOrder[fr.i]],
                                                  now)],
                        data_cache, db, log, last_run_times)

\* ... and the assignment of its result to self.data_cache[...]
cleanup_assign(f) ==
    /\ frames[f].pc = "cleanup_assign"
    /\ LET fr == frames[f]
       IN ConcStep(f, [fr EXCEPT !.pc = "cleanup_filter", !.i = @ + 1,
                                 !.list = <<>>],
                   [data_cache EXCEPT ![CleanupOrder[fr.i]] = fr.list],
                   db, log, last_run_times)

\* execute_job after the job body: the last-run timestamp, return
execute_job_finish(f) ==
    /\ frames[f].pc = "finish"
    /\ ConcStep(f, [frames[f] EXCEPT !.pc = "done"], data_cache, db, log,
                SetLastRun(last_run_times, LastRunKey(frames[f].job), now))

InitConc == InitPipeline /\ now = 0 /\ feed = "live" /\ san = NoSan /\ req = NoReq

NextConc ==
    \/ \E j \in ConcJobs : \E in \in ConcInputs(j) : execute_job_enter(j, in)
    \/ \E f \in 1..Len(frames) : full_scrape_chart(f)
    \/ \E f \in 1..Len(frames) : quick_scrape_trending(f)
    \/ \E f \in 1..Len(frames) : comprehensive_scrape_produce(f)
    \/ \E f \in 1..Len(frames) : store_query(f)
    \/ \E f \in 1..Len(frames) : store_commit(f)
    \/ \E f \in 1..Len(frames) : cache_extend(f)
    \/ \E f \in 1..Len(frames) : dedup_read(f)
    \/ \E f \in 1..Len(frames) : dedup_assign(f)
    \/ \E f \in 1..Len(frames) : cache_assign(f)
    \/ \E f \in 1..Len(frames) : cleanup_filter(f)
    \/ \E f \in 1..Len(frames) : cleanup_assign(f)
    \/ \E f \in 1..Len(frames) : execute_job_finish(f)

SpecConc == InitConc /\ [][NextConc]_vars

(***************************************************************************)
(* Claims about overlapping invocations (SpecConc).                        *)
(***************************************************************************)
\* frame f is inside a store call: the call has begun and has not committed
InStoreCall(f) == frames[f].pc = "store_commit"

\* C21: two storage calls for the same entity kind never execute
\* concurrently: while one invocation is inside a store call of a kind, no
\* other invocation is inside a store call of that kind.
C21_StoreCallsSerialized ==
    \A f, g \in 1..Len(frames) :
        (f # g /\ InStoreCall(f) /\ InStoreCall(g))
            => JobKind(frames[f].job) # JobKind(frames[g].job)

\* the orders in which n invocations can run one after the other
SerialOrders(n) ==
    {p \in [1..n -> 1..n] : \A a, b \in 1..n : a # b => p[a] # p[b]}

\* the cache after the invocations of frames have run as a whole, one after
\* the other in order p from position m on, on the data state d
RECURSIVE SerialRun(_, _, _)
SerialRun(d, p, m) ==
    IF m > Len(p) THEN d.cache
    ELSE SerialRun(JobBody(d, frames[p[m]].job, frames[p[m]].in, now), p, m + 1)

AllDone == frames # <<>> /\ \A f \in 1..Len(frames) : frames[f].pc = "done"

\* C22: when cache-writing jobs interleave, the resulting cache equals the
\* result of some serial order of those jobs, so no completed write is lost.
C22_CacheSerializable ==
    AllDone =>
        \E p \in SerialOrders(Len(frames)) :
            data_cache = SerialRun([cache |-> [apps |-> <<>>, steam_games |-> <<>>,
                                               events |-> <<>>, analysis |-> FALSE,
                                               last_updated |-> Never],
                                    db |-> [k \in Kinds |-> <<>>], log |-> <<>>],
                                   p, 1)

====
